---- MODULE Spec2Model ----
(***************************************************************************)
(* Model of the stork resource collector (package resourcecollector):     *)
(* GetResources, objectToBeCollected, resourceToBeCollected and the       *)
(* sanitization pass prepareResources, and of BackupLocation's            *)
(* UpadteFromSecret (package v1alpha1).                                   *)
(*                                                                         *)
(* A generic (unstructured) object is a function from field names to      *)
(* values; a nested map is again such a function.  Label maps are sets of *)
(* <<key, value>> pairs with at most one pair per key.  A group/version   *)
(* string is the sequence of its "/"-separated parts.                     *)
(***************************************************************************)
EXTENDS Naturals, Sequences, FiniteSets, TLC

VARIABLES
    discovery,      \* r.discoveryHelper.Resources(): sequence of group entries
    namespaces,     \* argument of GetResources
    labelSelectors, \* argument of GetResources
    variant,        \* which cluster snapshot the collaborators serve
    pc,             \* position of the call
    gi, ri, ni, oi, \* indices of the four nested loops
    objects,        \* the list extracted from the current list call
    allObjects,     \* the accumulated objects
    origins,        \* history: for each appended object, where it was listed
    resourceMap,    \* the map of seen uids
    listCalls,      \* history: the list calls issued
    lastEval,       \* history: the last evaluation of objectToBeCollected
    result,         \* returned objects (<<>> stands for nil)
    err,            \* returned error ("" stands for nil)
    prepared,       \* the objects prepareResources works on, rewritten in place
    prepInput,      \* history: the objects as handed to prepareResources
    bl,             \* the BackupLocation UpadteFromSecret works on
    blInput,        \* history: the BackupLocation as it was before the call
    secret          \* what the secret store answers for bl.Location.SecretConfig

vars == <<discovery, namespaces, labelSelectors, variant, pc, gi, ri, ni, oi,
          objects, allObjects, origins, resourceMap, listCalls, lastEval,
          result, err, prepared, prepInput, bl, blInput, secret>>

\* ---------------------------------------------------------------- bounds

\* longest requested namespace sequence
MaxNs == 2
\* longest sequence of discovered group entries
MaxGroups == 2
\* longest sequence handed to prepareResources
MaxPrepare == 2
\* most newlines at the end of a value of the secret
MaxTrail == 2

\* ------------------------------------------------------- generic helpers

Restrict(f, S) == [k \in S |-> f[k]]

Range(s) == {s[i] : i \in 1..Len(s)}

\* Go's map delete: a no-op when the key is absent
Delete(m, key) == Restrict(m, DOMAIN m \ {key})

\* the sequences of distinct elements of S of length 1..n
RECURSIVE DistinctSeqs(_, _)
DistinctSeqs(S, n) ==
    IF n = 0 THEN {}
    ELSE {<<x>> : x \in S} \cup
         {<<s[1]>> \o s[2] : s \in {p \in S \X DistinctSeqs(S, n - 1) :
                                        p[1] \notin Range(p[2])}}

\* collections.GetValue(root, path): the value at a path of keys, an error
\* when a key of the path is absent
RECURSIVE GetValue(_, _)
GetValue(root, path) ==
    IF path[1] \notin DOMAIN root
    THEN [ok |-> FALSE, val |-> ""]
    ELSE IF Len(path) = 1
         THEN [ok |-> TRUE, val |-> root[path[1]]]
         ELSE GetValue(root[path[1]], Tail(path))

\* collections.GetString / collections.GetMap (the values of the model are
\* of the type the caller asks for, so only a missing key fails)
GetString(root, path) == GetValue(root, path)
GetMap(root, path) == GetValue(root, path)

\* meta.Accessor / meta.TypeAccessor on an unstructured object: an absent
\* field reads as its zero value
GetKind(o) == IF "kind" \in DOMAIN o THEN o.kind ELSE ""
MetaField(o, key) ==
    IF "metadata" \in DOMAIN o /\ key \in DOMAIN o.metadata
    THEN o.metadata[key] ELSE ""
GetName(o) == MetaField(o, "name")
GetNamespace(o) == MetaField(o, "namespace")
GetUID(o) == MetaField(o, "uid")
GetLabels(o) ==
    IF "metadata" \in DOMAIN o /\ "labels" \in DOMAIN o.metadata
    THEN o.metadata.labels ELSE {}

\* schema.ParseGroupVersion: "v1" is the core group, "g/v" names a group,
\* more than one "/" is an error
ParseGroupVersion(gv) ==
    IF Len(gv) = 1 THEN [ok |-> TRUE, Group |-> "", Version |-> gv[1]]
    ELSE IF Len(gv) = 2 THEN [ok |-> TRUE, Group |-> gv[1], Version |-> gv[2]]
    ELSE [ok |-> FALSE, Group |-> "", Version |-> ""]

\* labels.AreLabelsInWhiteList(labels, whitelist)
AreLabelsInWhiteList(labels, whitelist) ==
    IF Cardinality(whitelist) = 0 THEN TRUE
    ELSE \A kv \in labels : kv \in whitelist

\* the selector built by labels.Set(labelSelectors).String(), as the lister
\* applies it: every pair of the selector is a label of the object
SelectorMatches(selectors, o) == \A kv \in selectors : kv \in GetLabels(o)

\* ------------------------------------------------- the cluster snapshots

\* a generic object as the lister returns it
Obj(kind, name, ns, uid, labels) ==
    [kind |-> kind,
     metadata |-> [name |-> name, uid |-> uid, resourceVersion |-> "7"]
                  @@ (IF ns # "" THEN "namespace" :> ns ELSE <<>>)
                  @@ (IF labels # {} THEN "labels" :> labels ELSE <<>>)]

WithMeta(o, key, val) == [o EXCEPT !.metadata = (key :> val) @@ @]
WithField(o, key, val) == (key :> val) @@ o

Claim(name, ns, uid, labels, phase) ==
    WithField(WithField(Obj("PersistentVolumeClaim", name, ns, uid, labels),
        "spec", [storageClassName |-> "px"]),
        "status", [phase |-> phase])

Volume(name, uid, labels, phase, spec) ==
    WithField(WithField(Obj("PersistentVolume", name, "", uid, labels),
        "spec", spec),
        "status", [phase |-> phase])

BoundTo(pvcName, pvcNamespace) ==
    [claimRef |-> [name |-> pvcName, namespace |-> pvcNamespace],
     storageClassName |-> "px", capacity |-> "1Gi"]

Workload(kind, name, ns, uid, labels) ==
    WithField(WithField(Obj(kind, name, ns, uid, labels),
        "spec", [replicas |-> "1"]),
        "status", [ready |-> "1"])

Plain(kind, name, ns, uid, labels) == Obj(kind, name, ns, uid, labels)

Svc(name, ns, uid, labels, spec) ==
    WithField(WithField(Obj("Service", name, ns, uid, labels),
        "spec", spec),
        "status", [loadBalancer |-> "none"])

Binding(name, uid, labels, role, subjectNamespaces) ==
    WithField(WithField(Obj("ClusterRoleBinding", name, "", uid, labels),
        "roleRef", [kind |-> "ClusterRole", name |-> role]),
        "subjects", [i \in 1..Len(subjectNamespaces) |->
                        [kind |-> "ServiceAccount", name |-> "sa",
                         namespace |-> subjectNamespaces[i]]])

db == {<<"app", "db">>}
web == {<<"app", "web">>}
dbFast == {<<"app", "db">>, <<"tier", "fast">>}

Claims == <<
    Claim("data-pvc", "ns1", "c1", db, "Bound"),
    Claim("web-pvc", "ns1", "c2", web, "Bound"),
    Claim("bare-pvc", "ns1", "c3", {}, "Bound"),
    Claim("pending-pvc", "ns1", "c4", db, "Pending"),
    Claim("foreign-pvc", "ns1", "c5", db, "Bound"),
    Claim("data-pvc", "ns2", "c6", dbFast, "Bound"),
    Claim("lost-pvc", "ns2", "c7", {}, "Lost"),
    WithMeta(Claim("log-pvc", "ns3", "c8", web, "Bound"),
             "annotations", {<<"note", "x">>}) >>

\* Driver.OwnsPVC: the claims the storage backend owns, by uid
OwnedClaims == {"c1", "c2", "c3", "c4", "c6", "c8"}

Volumes == <<
    Volume("pv-1", "v1", {}, "Bound", BoundTo("data-pvc", "ns1")),
    Volume("pv-2", "v2", db, "Bound", BoundTo("web-pvc", "ns1")),
    Volume("pv-3", "v3", db, "Bound", BoundTo("bare-pvc", "ns1")),
    Volume("pv-4", "v4", {}, "Bound", BoundTo("foreign-pvc", "ns1")),
    WithMeta(Volume("pv-5", "v5", {}, "Bound", BoundTo("data-pvc", "ns2")),
             "ownerReferences", "owner"),
    Volume("pv-6", "v6", {}, "Released", BoundTo("data-pvc", "ns1")),
    Volume("pv-7", "v7", {}, "Bound", BoundTo("", "ns1")),
    Volume("pv-8", "v8", {}, "Available", [capacity |-> "1Gi"]),
    Volume("pv-9", "v9", {}, "Bound", BoundTo("pending-pvc", "ns1")) >>

\* one more volume, by snapshot
ExtraVolume(v) ==
    IF v = "noClaimRef"
    THEN <<Volume("pv-x", "vx", {}, "Bound", [capacity |-> "1Gi"])>>
    ELSE IF v = "missingClaim"
    THEN <<Volume("pv-x", "vx", {}, "Bound", BoundTo("ghost-pvc", "ns1"))>>
    ELSE IF v = "noPhase"
    THEN <<WithField(WithField(Obj("PersistentVolume", "pv-x", "", "vx", {}),
               "spec", BoundTo("data-pvc", "ns1")), "status", [reason |-> "x"])>>
    ELSE <<>>

Variants == {"base", "noClaimRef", "missingClaim", "noPhase"}

Others == <<
    Svc("kubernetes", "ns1", "s1", {}, [clusterIP |-> "10.0.0.1"]),
    Svc("kubernetes", "ns2", "s2", db, [clusterIP |-> "10.0.0.1"]),
    Svc("db", "ns1", "s3", db, [clusterIP |-> "10.0.0.5", port |-> "5432"]),
    Svc("db-headless", "ns1", "s4", db, [clusterIP |-> "None", port |-> "5432"]),
    Svc("web", "ns2", "s5", {}, [externalName |-> "web.example"]),
    Plain("ServiceAccount", "default", "ns1", "a1", {}),
    Plain("ServiceAccount", "default", "ns2", "a2", db),
    Plain("ServiceAccount", "builder", "ns1", "a3", db),
    Plain("ServiceAccount", "runner", "ns2", "a4", {}),
    Workload("Deployment", "web", "ns1", "d1", web),
    WithMeta(Workload("Deployment", "db", "ns1", "d2", db),
             "creationTimestamp", "t0"),
    Workload("StatefulSet", "db", "ns2", "d3", db),
    Workload("DaemonSet", "agent", "ns1", "d4", {}),
    Workload("ReplicaSet", "web-1", "ns1", "d5", web),
    Plain("ConfigMap", "cfg", "ns1", "m1", db),
    Plain("Secret", "sec", "ns2", "m2", {}),
    Plain("Pod", "web-1-a", "ns1", "p1", web),
    Plain("ClusterRole", "reader", "", "r1", {}),
    Plain("ClusterRole", "admin", "", "r2", db),
    Plain("ClusterRole", "orphan", "", "r3", {}),
    Binding("reader-b", "b1", {}, "reader", <<"ns1", "ns3">>),
    Binding("admin-b", "b2", db, "admin", <<"ns2">>),
    Binding("admin-c", "b3", {}, "admin", <<"", "ns1", "ns2">>),
    Binding("reader-c", "b4", db, "reader", <<>>) >>

\* the objects of a snapshot, in the order the lister returns them
Cluster(v) == Claims \o Volumes \o ExtraVolume(v) \o Others

Namespaces == {"ns1", "ns2", "ns3"}

Selectors == {{}, db, web, dbFast}

\* k8s.Instance().GetPersistentVolumeClaim(name, namespace)
GetPersistentVolumeClaim(v, name, namespace) ==
    LET found == {i \in 1..Len(Cluster(v)) :
                    /\ GetKind(Cluster(v)[i]) = "PersistentVolumeClaim"
                    /\ GetName(Cluster(v)[i]) = name
                    /\ GetNamespace(Cluster(v)[i]) = namespace}
    IN  IF found = {} THEN [ok |-> FALSE, pvc |-> [kind |-> ""]]
        ELSE [ok |-> TRUE, pvc |-> Cluster(v)[CHOOSE i \in found : TRUE]]

\* k8s.Instance().ListClusterRoleBindings()
ListClusterRoleBindings(v) ==
    SelectSeq(Cluster(v), LAMBDA o : GetKind(o) = "ClusterRoleBinding")

\* k8s.Instance().GetClusterRoleBinding(name)
GetClusterRoleBinding(v, name) ==
    LET found == SelectSeq(ListClusterRoleBindings(v),
                           LAMBDA o : GetName(o) = name)
    IN  IF found = <<>> THEN [ok |-> FALSE, crb |-> [kind |-> ""]]
        ELSE [ok |-> TRUE, crb |-> found[1]]

\* r.Driver.OwnsPVC(pvc)
OwnsPVC(pvc) == GetUID(pvc) \in OwnedClaims

\* dynamicClient.List: the objects of the resource's kind, of the namespace
\* when the client is namespaced, that the label selector matches
List(v, kind, namespaced, ns, selectors) ==
    SelectSeq(Cluster(v), LAMBDA o :
        /\ GetKind(o) = kind
        /\ namespaced => GetNamespace(o) = ns
        /\ SelectorMatches(selectors, o))

\* ------------------------------------------------------------- discovery

Res(name, kind, group, namespaced) ==
    [Name |-> name, Kind |-> kind, Group |-> group, Namespaced |-> namespaced]

CoreGroup ==
    [GroupVersion |-> <<"v1">>,
     APIResources |-> <<
        Res("pods", "Pod", "", TRUE),
        Res("persistentvolumeclaims", "PersistentVolumeClaim", "", TRUE),
        Res("persistentvolumes", "PersistentVolume", "", FALSE),
        Res("configmaps", "ConfigMap", "", TRUE),
        Res("secrets", "Secret", "", TRUE),
        Res("services", "Service", "", TRUE),
        Res("serviceaccounts", "ServiceAccount", "", TRUE) >>]

AppsGroup ==
    [GroupVersion |-> <<"apps", "v1">>,
     APIResources |-> <<
        Res("deployments", "Deployment", "", TRUE),
        Res("replicasets", "ReplicaSet", "", TRUE),
        Res("statefulsets", "StatefulSet", "", TRUE),
        Res("daemonsets", "DaemonSet", "", TRUE) >>]

AppsBetaGroup ==
    [GroupVersion |-> <<"apps", "v1beta1">>,
     APIResources |-> <<
        Res("deployments", "Deployment", "", TRUE),
        Res("statefulsets", "StatefulSet", "", TRUE) >>]

ExtensionsGroup ==
    [GroupVersion |-> <<"extensions", "v1beta1">>,
     APIResources |-> <<
        Res("deployments", "Deployment", "extensions", TRUE),
        Res("daemonsets", "DaemonSet", "extensions", TRUE) >>]

RbacGroup ==
    [GroupVersion |-> <<"rbac.authorization.k8s.io", "v1">>,
     APIResources |-> <<
        Res("clusterroles", "ClusterRole", "", FALSE),
        Res("clusterrolebindings", "ClusterRoleBinding", "", FALSE) >>]

RbacBetaGroup ==
    [GroupVersion |-> <<"rbac.authorization.k8s.io", "v1beta1">>,
     APIResources |-> <<
        Res("clusterrolebindings", "ClusterRoleBinding", "", FALSE) >>]

\* a group entry whose GroupVersion does not parse
BadGroup ==
    [GroupVersion |-> <<"apps", "v1", "x">>, APIResources |-> <<>>]

\* the group entries a discovery answer is drawn from, in the order the
\* discovery helper reports them
GroupPool == <<ExtensionsGroup, AppsGroup, AppsBetaGroup, CoreGroup,
               RbacGroup, RbacBetaGroup, BadGroup>>

\* the subsequences of s of length at most n
RECURSIVE SubSeqs(_, _)
SubSeqs(s, n) ==
    IF s = <<>> \/ n = 0 THEN {<<>>}
    ELSE SubSeqs(Tail(s), n) \cup
         {<<Head(s)>> \o t : t \in SubSeqs(Tail(s), n - 1)}

\* ------------------------------------------------- resourceToBeCollected

CollectedKinds ==
    {"PersistentVolumeClaim", "PersistentVolume", "Deployment", "StatefulSet",
     "ConfigMap", "Service", "Secret", "DaemonSet", "ServiceAccount",
     "ClusterRole", "ClusterRoleBinding"}

\* mutant: every discovered kind is collected
resourceToBeCollectedAll(resource) ==
    ~(resource.Group = "extensions" /\ resource.Kind = "Deployment")

resourceToBeCollected(resource) ==
    IF resource.Group = "extensions" /\ resource.Kind = "Deployment"
    THEN FALSE
    ELSE resource.Kind \in CollectedKinds

\* --------------------------------------------------- objectToBeCollected

Yes == [collect |-> TRUE, ok |-> TRUE]
No == [collect |-> FALSE, ok |-> TRUE]
Error == [collect |-> FALSE, ok |-> FALSE]

\* mutant: the kubernetes service is collected like any other
collectServiceAny(object) == Yes

\* case "Service"
collectService(object) ==
    IF GetName(object) = "kubernetes" THEN No ELSE Yes

\* case "ServiceAccount"
collectServiceAccount(object) ==
    IF GetName(object) = "default" THEN No ELSE Yes

\* mutant: the ownership of the claim is not asked
collectPersistentVolumeClaimUnowned(object, namespace) ==
    LET got == GetPersistentVolumeClaim(variant, GetName(object), namespace)
    IN  IF ~got.ok THEN Error
        ELSE IF got.pvc.status.phase # "Bound" THEN No
        ELSE Yes

\* case "PersistentVolumeClaim"
collectPersistentVolumeClaim(object, namespace) ==
    LET got == GetPersistentVolumeClaim(variant, GetName(object), namespace)
    IN  IF ~got.ok THEN Error
        ELSE IF got.pvc.status.phase # "Bound" THEN No
        ELSE IF ~OwnsPVC(got.pvc) THEN No
        ELSE Yes

\* mutant: the selector is tested on the labels of the volume
collectPersistentVolumeOwnLabels(selectors, object, namespace) ==
    LET phase == GetString(object, <<"status", "phase">>)
        pvcName == GetString(object, <<"spec", "claimRef", "name">>)
        pvcNamespace == GetString(object, <<"spec", "claimRef", "namespace">>)
        got == GetPersistentVolumeClaim(variant, pvcName.val, pvcNamespace.val)
    IN  IF ~phase.ok THEN Error
        ELSE IF phase.val # "Bound" THEN No
        ELSE IF ~pvcName.ok THEN Error
        ELSE IF pvcName.val = "" THEN No
        ELSE IF ~pvcNamespace.ok THEN Error
        ELSE IF pvcNamespace.val # namespace THEN No
        ELSE IF ~got.ok THEN Error
        ELSE IF ~OwnsPVC(got.pvc) THEN No
        ELSE IF Cardinality(GetLabels(object)) = 0
                /\ Cardinality(selectors) > 0 THEN No
        ELSE IF ~AreLabelsInWhiteList(selectors, GetLabels(object)) THEN No
        ELSE Yes

\* case "PersistentVolume"
collectPersistentVolume(selectors, object, namespace) ==
    LET phase == GetString(object, <<"status", "phase">>)
        pvcName == GetString(object, <<"spec", "claimRef", "name">>)
        pvcNamespace == GetString(object, <<"spec", "claimRef", "namespace">>)
        got == GetPersistentVolumeClaim(variant, pvcName.val, pvcNamespace.val)
    IN  IF ~phase.ok THEN Error
        ELSE IF phase.val # "Bound" THEN No
        ELSE IF ~pvcName.ok THEN Error
        ELSE IF pvcName.val = "" THEN No
        ELSE IF ~pvcNamespace.ok THEN Error
        ELSE IF pvcNamespace.val # namespace THEN No
        ELSE IF ~got.ok THEN Error
        ELSE IF ~OwnsPVC(got.pvc) THEN No
        ELSE IF Cardinality(GetLabels(got.pvc)) = 0
                /\ Cardinality(selectors) > 0 THEN No
        ELSE IF ~AreLabelsInWhiteList(selectors, GetLabels(got.pvc)) THEN No
        ELSE Yes

\* case "ClusterRoleBinding"
collectClusterRoleBinding(object, namespace) ==
    LET got == GetClusterRoleBinding(variant, GetName(object))
    IN  IF ~got.ok THEN Error
        ELSE IF \E i \in 1..Len(got.crb.subjects) :
                    got.crb.subjects[i].namespace = namespace
             THEN Yes
             ELSE No

\* mutant: any binding with a subject in the namespace, whatever its role
collectClusterRoleAnyBinding(object, namespace) ==
    LET crbs == ListClusterRoleBindings(variant)
    IN  IF \E c \in 1..Len(crbs) :
                \E i \in 1..Len(crbs[c].subjects) :
                    crbs[c].subjects[i].namespace = namespace
        THEN Yes
        ELSE No

\* case "ClusterRole"
collectClusterRole(object, namespace) ==
    LET crbs == ListClusterRoleBindings(variant)
    IN  IF \E c \in 1..Len(crbs) :
                /\ crbs[c].roleRef.name = GetName(object)
                /\ \E i \in 1..Len(crbs[c].subjects) :
                       crbs[c].subjects[i].namespace = namespace
        THEN Yes
        ELSE No

\* the switch on the object's kind
kindRule(selectors, object, namespace) ==
    CASE GetKind(object) = "Service" -> collectService(object)
      [] GetKind(object) = "PersistentVolumeClaim" ->
            collectPersistentVolumeClaim(object, namespace)
      [] GetKind(object) = "PersistentVolume" ->
            collectPersistentVolume(selectors, object, namespace)
      [] GetKind(object) = "ClusterRoleBinding" ->
            collectClusterRoleBinding(object, namespace)
      [] GetKind(object) = "ClusterRole" ->
            collectClusterRole(object, namespace)
      [] GetKind(object) = "ServiceAccount" -> collectServiceAccount(object)
      [] OTHER -> Yes

\* skip if the object was already processed
alreadySeen(seen, object) == GetUID(object) \in seen

objectToBeCollected(selectors, seen, object, namespace) ==
    IF alreadySeen(seen, object) THEN No
    ELSE kindRule(selectors, object, namespace)

\* ---------------------------------------------------------- GetResources

NoEval == [valid |-> FALSE, object |-> [kind |-> ""], namespace |-> "",
           seen |-> FALSE, collect |-> FALSE, ok |-> TRUE]

\* the selector of the list call: none for volumes
listSelector(resource, selectors) ==
    IF resource.Kind # "PersistentVolume" THEN selectors ELSE {}

\* mutant: an aborted call hands out what it had accumulated
resultOnErrorPartial(accumulated) == accumulated

\* what an aborted call returns for the accumulated objects: nil
resultOnError(accumulated) == <<>>

Fail(e) ==
    /\ pc' = "done"
    /\ err' = e
    /\ result' = resultOnError(allObjects)

\* no BackupLocation is being updated
NoLocation ==
    [Type |-> "", SecretConfig |-> "", S3Config |-> <<>>,
     AzureConfig |-> <<>>, GoogleConfig |-> <<>>]

NoSecret == [found |-> FALSE, Data |-> <<>>]

BackupIdle == bl = NoLocation /\ blInput = NoLocation /\ secret = NoSecret

\* a call of GetResources: any discovery answer, a sequence of distinct
\* namespaces (a Collection Request names each namespace once), any selector
\* and any of the cluster snapshots
Init ==
    /\ discovery \in SubSeqs(GroupPool, MaxGroups)
    /\ namespaces \in DistinctSeqs(Namespaces, MaxNs)
    /\ labelSelectors \in Selectors
    /\ variant \in Variants
    /\ pc = "refresh"
    /\ gi = 1 /\ ri = 1 /\ ni = 1 /\ oi = 1
    /\ objects = <<>>
    /\ allObjects = <<>>
    /\ origins = <<>>
    /\ resourceMap = {}
    /\ listCalls = {}
    /\ lastEval = NoEval
    /\ result = <<>>
    /\ err = ""
    /\ prepared = <<>>
    /\ prepInput = <<>>
    /\ BackupIdle

\* r.discoveryHelper.Refresh(), then allObjects := make(...)
Refresh ==
    /\ pc = "refresh"
    /\ \E ok \in BOOLEAN :
        IF ok
        THEN /\ pc' = "group"
             /\ UNCHANGED <<err, result>>
        ELSE Fail("refresh")
    /\ UNCHANGED <<discovery, namespaces, labelSelectors, variant, gi, ri, ni,
                   oi, objects, allObjects, origins, resourceMap, listCalls,
                   lastEval, prepared, prepInput>>
    /\ UNCHANGED <<bl, blInput, secret>>

\* one iteration of the loop over the group entries, up to the loop over
\* the entry's resources
NextGroup ==
    /\ pc = "group"
    /\ gi <= Len(discovery)
    /\ LET groupVersion == ParseGroupVersion(discovery[gi].GroupVersion)
       IN  IF ~groupVersion.ok
           THEN /\ Fail("parse")
                /\ UNCHANGED <<gi, ri, resourceMap>>
           ELSE IF groupVersion.Group = "extensions"
           THEN /\ gi' = gi + 1
                /\ UNCHANGED <<pc, err, result, ri, resourceMap>>
           ELSE /\ resourceMap' = {}
                /\ ri' = 1
                /\ pc' = "resource"
                /\ UNCHANGED <<gi, err, result>>
    /\ UNCHANGED <<discovery, namespaces, labelSelectors, variant, ni, oi,
                   objects, allObjects, origins, listCalls, lastEval,
                   prepared, prepInput>>
    /\ UNCHANGED <<bl, blInput, secret>>

\* return allObjects, nil
Return ==
    /\ pc = "group"
    /\ gi > Len(discovery)
    /\ pc' = "done"
    /\ result' = allObjects
    /\ err' = ""
    /\ UNCHANGED <<discovery, namespaces, labelSelectors, variant, gi, ri, ni,
                   oi, objects, allObjects, origins, resourceMap, listCalls,
                   lastEval, prepared, prepInput>>
    /\ UNCHANGED <<bl, blInput, secret>>

\* one iteration of the loop over group.APIResources, up to the loop over
\* the namespaces
NextResource ==
    /\ pc = "resource"
    /\ IF ri > Len(discovery[gi].APIResources)
       THEN /\ gi' = gi + 1
            /\ pc' = "group"
            /\ UNCHANGED <<ri, ni>>
       ELSE IF ~resourceToBeCollected(discovery[gi].APIResources[ri])
       THEN /\ ri' = ri + 1
            /\ UNCHANGED <<gi, pc, ni>>
       ELSE /\ ni' = 1
            /\ pc' = "ns"
            /\ UNCHANGED <<gi, ri>>
    /\ UNCHANGED <<discovery, namespaces, labelSelectors, variant, oi,
                   objects, allObjects, origins, resourceMap, listCalls,
                   lastEval, result, err, prepared, prepInput>>
    /\ UNCHANGED <<bl, blInput, secret>>

\* one iteration of the loop over the namespaces: the list call and
\* meta.ExtractList, up to the loop over the objects
ListObjects ==
    /\ pc = "ns"
    /\ IF ni > Len(namespaces)
       THEN /\ ri' = ri + 1
            /\ pc' = "resource"
            /\ UNCHANGED <<ni, oi, objects, listCalls, err, result>>
       ELSE LET resource == discovery[gi].APIResources[ri]
                groupVersion == ParseGroupVersion(discovery[gi].GroupVersion)
                ns == namespaces[ni]
                selectors == listSelector(resource, labelSelectors)
            IN  /\ listCalls' = listCalls \cup
                        {[Group |-> groupVersion.Group,
                          Version |-> groupVersion.Version,
                          Resource |-> resource.Name,
                          Kind |-> resource.Kind,
                          Namespace |-> IF resource.Namespaced THEN ns ELSE "",
                          LabelSelector |-> selectors]}
                /\ \E outcome \in {"ok", "list", "extract"} :
                    IF outcome = "ok"
                    THEN /\ objects' = List(variant, resource.Kind,
                                            resource.Namespaced, ns, selectors)
                         /\ oi' = 1
                         /\ pc' = "object"
                         /\ UNCHANGED <<ri, ni, err, result>>
                    ELSE /\ Fail(outcome)
                         /\ UNCHANGED <<ri, ni, oi, objects>>
    /\ UNCHANGED <<discovery, namespaces, labelSelectors, variant, gi,
                   allObjects, origins, resourceMap, lastEval, prepared,
                   prepInput>>
    /\ UNCHANGED <<bl, blInput, secret>>

\* one iteration of the loop over the listed objects
ProcessObject ==
    /\ pc = "object"
    /\ IF oi > Len(objects)
       THEN /\ ni' = ni + 1
            /\ pc' = "ns"
            /\ UNCHANGED <<oi, allObjects, origins, resourceMap, lastEval,
                           err, result>>
       ELSE \E castOk \in BOOLEAN :
            LET runtimeObject == objects[oi]
                ns == namespaces[ni]
                answer == objectToBeCollected(labelSelectors, resourceMap,
                                              runtimeObject, ns)
            IN  IF ~castOk
                THEN /\ Fail("cast")
                     /\ UNCHANGED <<ni, oi, allObjects, origins, resourceMap,
                                    lastEval>>
                ELSE /\ lastEval' =
                            [valid |-> TRUE, object |-> runtimeObject,
                             namespace |-> ns,
                             seen |-> alreadySeen(resourceMap, runtimeObject),
                             collect |-> answer.collect, ok |-> answer.ok]
                     /\ IF ~answer.ok
                        THEN /\ Fail("process")
                             /\ UNCHANGED <<ni, oi, allObjects, origins,
                                            resourceMap>>
                        ELSE IF ~answer.collect
                        THEN /\ oi' = oi + 1
                             /\ UNCHANGED <<ni, pc, allObjects, origins,
                                            resourceMap, err, result>>
                        ELSE /\ allObjects' = Append(allObjects, runtimeObject)
                             /\ origins' = Append(origins,
                                    [entry |-> gi,
                                     Group |-> ParseGroupVersion(
                                         discovery[gi].GroupVersion).Group,
                                     Kind |-> discovery[gi].APIResources[ri].Kind,
                                     Namespace |-> ns])
                             /\ resourceMap' = resourceMap \cup
                                                  {GetUID(runtimeObject)}
                             /\ oi' = oi + 1
                             /\ UNCHANGED <<ni, pc, err, result>>
    /\ UNCHANGED <<discovery, namespaces, labelSelectors, variant, gi, ri,
                   objects, listCalls, prepared, prepInput>>
    /\ UNCHANGED <<bl, blInput, secret>>

Next == Refresh \/ NextGroup \/ Return \/ NextResource \/ ListObjects
        \/ ProcessObject

Spec == Init /\ [][Next]_vars

\* ------------------------------------------------------ prepareResources

\* mutant: the storage class stays in the spec of the volume
preparePVResourceKeepClass(object) ==
    LET spec == GetMap(object, <<"spec">>)
    IN  IF ~spec.ok THEN [ok |-> FALSE, object |-> object]
        ELSE [ok |-> TRUE,
              object |-> [object EXCEPT !.spec = Delete(spec.val, "claimRef")]]

\* preparePVResource: the object with claimRef and storageClassName
\* deleted from its spec
preparePVResource(object) ==
    LET spec == GetMap(object, <<"spec">>)
    IN  IF ~spec.ok THEN [ok |-> FALSE, object |-> object]
        ELSE [ok |-> TRUE,
              object |-> [object EXCEPT !.spec =
                            Delete(Delete(spec.val, "claimRef"),
                                   "storageClassName")]]

\* mutant: clusterIP is deleted from a headless service as well
prepareServiceResourceAlways(object) ==
    LET spec == GetMap(object, <<"spec">>)
    IN  IF ~spec.ok THEN [ok |-> FALSE, object |-> object]
        ELSE [ok |-> TRUE,
              object |-> [object EXCEPT !.spec = Delete(spec.val, "clusterIP")]]

\* prepareServiceResource: clusterIP deleted unless the service is headless
prepareServiceResource(object) ==
    LET spec == GetMap(object, <<"spec">>)
        ip == GetString(spec.val, <<"clusterIP">>)
    IN  IF ~spec.ok THEN [ok |-> FALSE, object |-> object]
        ELSE IF ip.ok /\ ip.val # "None"
        THEN [ok |-> TRUE,
              object |-> [object EXCEPT !.spec = Delete(spec.val, "clusterIP")]]
        ELSE [ok |-> TRUE, object |-> object]

\* the metadata keys prepareResources keeps
keptMetadata == {"name", "namespace", "labels", "annotations"}

\* mutant: the uid survives the clean-up
cleanMetadataKeepUid(metadataMap) ==
    Restrict(metadataMap, DOMAIN metadataMap \cap (keptMetadata \cup {"uid"}))

\* the loop that removes all metadata except the well-known keys
cleanMetadata(metadataMap) ==
    Restrict(metadataMap, DOMAIN metadataMap \cap keptMetadata)

\* delete(content, "status")
dropStatus(content) == Delete(content, "status")

\* the switch on the object's kind
prepareKind(object) ==
    CASE GetKind(object) = "PersistentVolume" -> preparePVResource(object)
      [] GetKind(object) = "Service" -> prepareServiceResource(object)
      [] OTHER -> [ok |-> TRUE, object |-> object]

\* the body of the loop of prepareResources on one object: the object as the
\* iteration leaves it, and whether the iteration returned an error
prepareOne(o) ==
    LET content == dropStatus(o)
        updated == prepareKind(content)
        metadataMap == GetMap(updated.object, <<"metadata">>)
    IN  IF ~updated.ok THEN [ok |-> FALSE, object |-> content]
        ELSE IF ~metadataMap.ok THEN [ok |-> FALSE, object |-> updated.object]
        ELSE [ok |-> TRUE,
              object |-> [updated.object EXCEPT
                              !.metadata = cleanMetadata(metadataMap.val)]]

\* objects that miss a part prepareResources reads
Malformed == {
    [kind |-> "ConfigMap", status |-> [ready |-> "1"]],
    Delete(Volumes[1], "spec"),
    Delete(Others[3], "spec") }

\* the objects prepareResources is tried on
PreparePool ==
    {Claims[1], Claims[8], Volumes[1], Volumes[2], Volumes[5], Volumes[8],
     Others[1], Others[3], Others[4], Others[5], Others[6], Others[11],
     Others[15], Others[18], Others[21], Delete(Others[12], "status")}
    \cup Malformed

\* the sequences over S of length 1..n
RECURSIVE SeqsUpTo(_, _)
SeqsUpTo(S, n) ==
    IF n = 0 THEN {}
    ELSE {<<x>> : x \in S} \cup
         {<<p[1]>> \o p[2] : p \in S \X SeqsUpTo(S, n - 1)}

InitPrepare ==
    /\ prepInput \in SeqsUpTo(PreparePool, MaxPrepare)
    /\ prepared = prepInput
    /\ pc = "prepare"
    /\ oi = 1
    /\ err = ""
    /\ discovery = <<>>
    /\ namespaces = <<>>
    /\ labelSelectors = {}
    /\ variant = "base"
    /\ gi = 1 /\ ri = 1 /\ ni = 1
    /\ objects = <<>>
    /\ allObjects = <<>>
    /\ origins = <<>>
    /\ resourceMap = {}
    /\ listCalls = {}
    /\ lastEval = NoEval
    /\ result = <<>>
    /\ BackupIdle

\* one iteration of the loop of prepareResources
PrepareObject ==
    /\ pc = "prepare"
    /\ oi <= Len(prepared)
    /\ LET done == prepareOne(prepared[oi])
       IN  /\ prepared' = [prepared EXCEPT ![oi] = done.object]
           /\ IF done.ok
              THEN /\ oi' = oi + 1
                   /\ UNCHANGED <<pc, err>>
              ELSE /\ pc' = "prepared"
                   /\ err' = "prepare"
                   /\ UNCHANGED oi
    /\ UNCHANGED <<discovery, namespaces, labelSelectors, variant, gi, ri, ni,
                   objects, allObjects, origins, resourceMap, listCalls,
                   lastEval, result, prepInput>>
    /\ UNCHANGED <<bl, blInput, secret>>

\* return nil
PrepareReturn ==
    /\ pc = "prepare"
    /\ oi > Len(prepared)
    /\ pc' = "prepared"
    /\ err' = ""
    /\ UNCHANGED <<discovery, namespaces, labelSelectors, variant, gi, ri, ni,
                   oi, objects, allObjects, origins, resourceMap, listCalls,
                   lastEval, result, prepared, prepInput>>
    /\ UNCHANGED <<bl, blInput, secret>>

NextPrepare == PrepareObject \/ PrepareReturn

SpecPrepare == InitPrepare /\ [][NextPrepare]_vars

\* ------------------------------------- BackupLocation.UpadteFromSecret

\* A string of a config or of the secret is the sequence of its pieces, a
\* newline being a piece of its own.
NL == "\n"

\* strings.TrimSuffix(s, "\n"): one newline off the end, if there is one
TrimSuffix(str) ==
    IF Len(str) > 0 /\ str[Len(str)] = NL
    THEN SubSeq(str, 1, Len(str) - 1)
    ELSE str

BackupLocationS3 == "s3"
BackupLocationAzure == "azure"
BackupLocationGoogle == "google"

\* the value secretConfig.Data[key] trimmed
Trimmed(data, key) == TrimSuffix(data[key])

\* getMergedS3Config: the location after the merge, and the error
getMergedS3Config(loc, store) ==
    LET defaulted ==
            IF loc.S3Config = <<>>
            THEN [loc EXCEPT !.S3Config =
                    <<[Endpoint |-> <<"s3.amazonaws.com">>,
                       AccessKeyID |-> <<>>,
                       SecretAccessKey |-> <<>>,
                       Region |-> <<"us-east-1">>]>>]
            ELSE loc
        data == store.Data
        c0 == defaulted.S3Config[1]
        c1 == IF "endpoint" \in DOMAIN data
              THEN [c0 EXCEPT !.Endpoint = Trimmed(data, "endpoint")] ELSE c0
        c2 == IF "accessKeyID" \in DOMAIN data
              THEN [c1 EXCEPT !.AccessKeyID = Trimmed(data, "accessKeyID")]
              ELSE c1
        c3 == IF "secretAccessKey" \in DOMAIN data
              THEN [c2 EXCEPT !.SecretAccessKey =
                                  Trimmed(data, "secretAccessKey")]
              ELSE c2
        c4 == IF "region" \in DOMAIN data
              THEN [c3 EXCEPT !.SecretAccessKey = Trimmed(data, "region")]
              ELSE c3
    IN  IF loc.SecretConfig = "" THEN [loc |-> defaulted, err |-> ""]
        ELSE IF ~store.found THEN [loc |-> defaulted, err |-> "secret"]
        ELSE [loc |-> [defaulted EXCEPT !.S3Config = <<c4>>], err |-> ""]

\* getMergedAzureConfig
getMergedAzureConfig(loc, store) ==
    LET defaulted ==
            IF loc.AzureConfig = <<>>
            THEN [loc EXCEPT !.AzureConfig =
                    <<[StorageAccountName |-> <<>>,
                       StorageAccountKey |-> <<>>]>>]
            ELSE loc
        data == store.Data
        c0 == defaulted.AzureConfig[1]
        c1 == IF "storageAccountName" \in DOMAIN data
              THEN [c0 EXCEPT !.StorageAccountName =
                                  Trimmed(data, "storageAccountName")]
              ELSE c0
        c2 == IF "storageAccountKey" \in DOMAIN data
              THEN [c1 EXCEPT !.StorageAccountKey =
                                  Trimmed(data, "storageAccountKey")]
              ELSE c1
    IN  IF loc.SecretConfig = "" THEN [loc |-> defaulted, err |-> ""]
        ELSE IF ~store.found THEN [loc |-> defaulted, err |-> "secret"]
        ELSE [loc |-> [defaulted EXCEPT !.AzureConfig = <<c2>>], err |-> ""]

\* getMergedGoogleConfig
getMergedGoogleConfig(loc, store) ==
    LET defaulted ==
            IF loc.GoogleConfig = <<>>
            THEN [loc EXCEPT !.GoogleConfig =
                    <<[ProjectID |-> <<>>, AccountKey |-> <<>>]>>]
            ELSE loc
        data == store.Data
        c0 == defaulted.GoogleConfig[1]
        c1 == IF "projectID" \in DOMAIN data
              THEN [c0 EXCEPT !.ProjectID = Trimmed(data, "projectID")]
              ELSE c0
        c2 == IF "accountKey" \in DOMAIN data
              THEN [c1 EXCEPT !.AccountKey = Trimmed(data, "accountKey")]
              ELSE c1
    IN  IF loc.SecretConfig = "" THEN [loc |-> defaulted, err |-> ""]
        ELSE IF ~store.found THEN [loc |-> defaulted, err |-> "secret"]
        ELSE [loc |-> [defaulted EXCEPT !.GoogleConfig = <<c2>>], err |-> ""]

\* the keys a secret of a backup location may hold
SecretKeys ==
    {"endpoint", "accessKeyID", "secretAccessKey", "region",
     "storageAccountName", "storageAccountKey", "projectID", "accountKey"}

\* n newlines
RECURSIVE Newlines(_)
Newlines(n) == IF n = 0 THEN <<>> ELSE <<NL>> \o Newlines(n - 1)

\* the secrets the store may hold: any keys, each value the key's text
\* followed by the same number of newlines
Secrets ==
    {[found |-> TRUE, Data |-> [k \in keys |-> <<k \o "-value">> \o Newlines(n)]] :
        keys \in SUBSET SecretKeys, n \in 0..MaxTrail}

InlineS3 ==
    [Endpoint |-> <<"minio.local">>, AccessKeyID |-> <<"inline-id">>,
     SecretAccessKey |-> <<"inline-key">>, Region |-> <<"eu-west-1">>]
InlineAzure ==
    [StorageAccountName |-> <<"inline-account">>,
     StorageAccountKey |-> <<"inline-key">>]
InlineGoogle ==
    [ProjectID |-> <<"inline-project">>, AccountKey |-> <<"inline-key">>]

\* the locations UpadteFromSecret is called on: the config of the
\* location's type given inline or not at all
Locations ==
    {[Type |-> t, SecretConfig |-> sc,
      S3Config |-> IF t = BackupLocationS3 /\ inline
                   THEN <<InlineS3>> ELSE <<>>,
      AzureConfig |-> IF t = BackupLocationAzure /\ inline
                      THEN <<InlineAzure>> ELSE <<>>,
      GoogleConfig |-> IF t = BackupLocationGoogle /\ inline
                       THEN <<InlineGoogle>> ELSE <<>>] :
        t \in {BackupLocationS3, BackupLocationAzure, BackupLocationGoogle,
               "nfs"},
        sc \in {"", "creds"},
        inline \in BOOLEAN}

InitBackup ==
    /\ blInput \in Locations
    /\ bl = blInput
    /\ secret \in Secrets \cup {NoSecret}
    /\ pc = "update"
    /\ err = ""
    /\ discovery = <<>>
    /\ namespaces = <<>>
    /\ labelSelectors = {}
    /\ variant = "base"
    /\ gi = 1 /\ ri = 1 /\ ni = 1 /\ oi = 1
    /\ objects = <<>>
    /\ allObjects = <<>>
    /\ origins = <<>>
    /\ resourceMap = {}
    /\ listCalls = {}
    /\ lastEval = NoEval
    /\ result = <<>>
    /\ prepared = <<>>
    /\ prepInput = <<>>

\* bl.UpadteFromSecret(client)
UpadteFromSecret ==
    /\ pc = "update"
    /\ pc' = "updated"
    /\ IF bl.SecretConfig = ""
       THEN UNCHANGED <<bl, err>>
       ELSE LET merged ==
                    CASE bl.Type = BackupLocationS3 ->
                            getMergedS3Config(bl, secret)
                      [] bl.Type = BackupLocationAzure ->
                            getMergedAzureConfig(bl, secret)
                      [] bl.Type = BackupLocationGoogle ->
                            getMergedGoogleConfig(bl, secret)
                      [] OTHER -> [loc |-> bl, err |-> "type"]
            IN  /\ bl' = merged.loc
                /\ err' = merged.err
    /\ UNCHANGED <<discovery, namespaces, labelSelectors, variant, gi, ri, ni,
                   oi, objects, allObjects, origins, resourceMap, listCalls,
                   lastEval, result, prepared, prepInput, blInput, secret>>

NextBackup == UpadteFromSecret

SpecBackup == InitBackup /\ [][NextBackup]_vars

\* ================================================================ claims

Succeeded == pc = "done" /\ err = ""

Uids(seq) == {GetUID(seq[i]) : i \in 1..Len(seq)}

Copies(seq, uid) == Cardinality({i \in 1..Len(seq) : GetUID(seq[i]) = uid})

ClusterObjects == Range(Cluster(variant))

\* a list call was issued that returns the object
Listed(o) ==
    \E c \in listCalls :
        /\ c.Kind = GetKind(o)
        /\ c.Namespace \in {"", GetNamespace(o)}
        /\ \A kv \in c.LabelSelector : kv \in GetLabels(o)

\* the typed claim a volume's claim reference names, if there is one
ClaimOf(pv) ==
    {c \in ClusterObjects :
        /\ GetKind(c) = "PersistentVolumeClaim"
        /\ "spec" \in DOMAIN pv
        /\ "claimRef" \in DOMAIN pv.spec
        /\ {"name", "namespace"} \subseteq DOMAIN pv.spec.claimRef
        /\ GetName(c) = pv.spec.claimRef.name
        /\ GetNamespace(c) = pv.spec.claimRef.namespace}

IsBoundVolume(o) ==
    /\ GetKind(o) = "PersistentVolume"
    /\ "status" \in DOMAIN o
    /\ "phase" \in DOMAIN o.status
    /\ o.status.phase = "Bound"

\* C1: on a successful GetResources call no uid appears more than once in
\* the returned objects, also when the same object is listed under two
\* different non-extensions group/version entries (one seen set per call).
C1_NoDuplicateUid ==
    Succeeded =>
        \A i, j \in 1..Len(result) :
            i # j => GetUID(result[i]) # GetUID(result[j])

\* C2: GetResources is fail-fast with no partial result: when the refresh,
\* the group-version parsing, a list call, the extraction or cast of the
\* listed objects or the inclusion predicate fails, the call is over with an
\* error and a nil object set, whatever had been accumulated.
C2_FailFast ==
    /\ (pc = "done" /\ err # "") => result = <<>>
    /\ (lastEval.valid /\ ~lastEval.ok) =>
            (pc = "done" /\ err = "process" /\ result = <<>>)
    /\ (pc # "done") => (err = "" /\ result = <<>>)

C2_Witness ==
    /\ pc = "done"
    /\ err = "process"
    /\ Len(allObjects) > 1
    /\ result = <<>>

\* C3: every object GetResources returns has been through the sanitization
\* pass: it has no status subtree and its metadata holds no key other than
\* name, namespace, labels, annotations.
C3_ResultSanitized ==
    Succeeded =>
        \A i \in 1..Len(result) :
            /\ "status" \notin DOMAIN result[i]
            /\ DOMAIN result[i].metadata \subseteq
                   {"name", "namespace", "labels", "annotations"}

\* C4: a Bound PersistentVolume whose claim reference names an existing
\* claim the driver owns is accepted by the inclusion predicate for target
\* namespace ns and selector S iff the claim's namespace is ns and every
\* key/value of S is a label of the claim (not of the volume); a claim
\* without labels fails a non-empty S, an empty S always passes.
C4_VolumeEligibility ==
    (lastEval.valid /\ IsBoundVolume(lastEval.object)) =>
        \A c \in ClaimOf(lastEval.object) :
            GetUID(c) \in OwnedClaims =>
                /\ lastEval.ok
                /\ lastEval.collect <=>
                     /\ GetNamespace(c) = lastEval.namespace
                     /\ labelSelectors \subseteq GetLabels(c)
                /\ (labelSelectors # {} /\ GetLabels(c) = {})
                        => ~lastEval.collect
                /\ (labelSelectors = {}
                    /\ GetNamespace(c) = lastEval.namespace)
                        => lastEval.collect

\* a volume whose own labels satisfy the selector is rejected because its
\* claim's labels do not
C4_Witness ==
    /\ lastEval.valid
    /\ IsBoundVolume(lastEval.object)
    /\ labelSelectors = db
    /\ GetLabels(lastEval.object) = db
    /\ \E c \in ClaimOf(lastEval.object) :
            /\ GetUID(c) \in OwnedClaims
            /\ GetNamespace(c) = lastEval.namespace
            /\ GetLabels(c) = web
    /\ ~lastEval.collect
    /\ \E i \in 1..Len(allObjects) :
            /\ IsBoundVolume(allObjects[i])
            /\ GetLabels(allObjects[i]) = {}

\* C5: a Bound PersistentVolume without a claim reference in its spec is
\* answered 'do not collect' without an error, and the call goes on.
C5_UnclaimedVolumeSkipped ==
    (/\ lastEval.valid
     /\ IsBoundVolume(lastEval.object)
     /\ "spec" \in DOMAIN lastEval.object
     /\ "claimRef" \notin DOMAIN lastEval.object.spec) =>
        /\ lastEval.ok
        /\ ~lastEval.collect
        /\ err = ""

\* C6: on a successful call a PersistentVolumeClaim of a requested
\* namespace whose kind was listed there is in the result iff its labels
\* satisfy the selector, its phase is Bound and the driver owns it; no
\* claim that is not Bound or not owned is in the result; data-pvc of ns1
\* (labels app=db) is in the result for selector app=db and not for app=web.
C6_ClaimEligibility ==
    Succeeded =>
        /\ \A c \in ClusterObjects :
            (/\ GetKind(c) = "PersistentVolumeClaim"
             /\ GetNamespace(c) \in Range(namespaces)
             /\ \E call \in listCalls :
                    /\ call.Kind = "PersistentVolumeClaim"
                    /\ call.Namespace = GetNamespace(c)) =>
                (GetUID(c) \in Uids(result) <=>
                    /\ labelSelectors \subseteq GetLabels(c)
                    /\ c.status.phase = "Bound"
                    /\ GetUID(c) \in OwnedClaims)
        /\ \A i \in 1..Len(result) :
            GetKind(result[i]) = "PersistentVolumeClaim" =>
                /\ result[i].status.phase = "Bound"
                /\ GetUID(result[i]) \in OwnedClaims
        /\ (labelSelectors = web) => "c1" \notin Uids(result)
        /\ (/\ labelSelectors = db
            /\ "ns1" \in Range(namespaces)
            /\ CoreGroup \in Range(discovery)) => "c1" \in Uids(result)

C6_Witness ==
    /\ Succeeded
    /\ labelSelectors = db
    /\ "c1" \in Uids(result)
    /\ "c5" \notin Uids(result)
    /\ "c4" \notin Uids(result)

\* C7: on a successful call over the namespace sequence N a listed
\* ClusterRoleBinding is in the result iff one of its subjects has a
\* namespace of N, whatever its position in N, and it is in the result at
\* most once when several namespaces of N match.
C7_BindingEligibility ==
    Succeeded =>
        \A b \in ClusterObjects :
            (GetKind(b) = "ClusterRoleBinding" /\ Listed(b)) =>
                LET matching == {n \in Range(namespaces) :
                                    \E i \in 1..Len(b.subjects) :
                                        b.subjects[i].namespace = n}
                IN  /\ GetUID(b) \in Uids(result) <=> matching # {}
                    /\ Cardinality(matching) > 1 =>
                            Copies(result, GetUID(b)) <= 1

C9_BuiltinExclusion ==
    /\ \A i \in 1..Len(allObjects) :
        /\ ~(GetKind(allObjects[i]) = "Service"
             /\ GetName(allObjects[i]) = "kubernetes")
        /\ ~(GetKind(allObjects[i]) = "ServiceAccount"
             /\ GetName(allObjects[i]) = "default")
    /\ result \in {<<>>, allObjects}
    /\ (lastEval.valid /\ ~lastEval.seen) =>
        /\ (GetKind(lastEval.object) = "Service"
            /\ GetName(lastEval.object) # "kubernetes")
                => (lastEval.ok /\ lastEval.collect)
        /\ (GetKind(lastEval.object) = "ServiceAccount"
            /\ GetName(lastEval.object) # "default")
                => (lastEval.ok /\ lastEval.collect)
        /\ GetKind(lastEval.object) \in
                {"Deployment", "StatefulSet", "DaemonSet", "ConfigMap",
                 "Secret"}
                => (lastEval.ok /\ lastEval.collect)

\* the kubernetes service matches a non-empty selector, is listed and is
\* rejected
C9_Witness ==
    /\ lastEval.valid
    /\ labelSelectors = db
    /\ GetKind(lastEval.object) = "Service"
    /\ GetName(lastEval.object) = "kubernetes"
    /\ ~lastEval.collect
    /\ "m1" \in Uids(allObjects)

\* C10: after a successful prepareResources every object has no top-level
\* status field, its metadata keys are the input's metadata keys that are
\* among name, namespace, labels, annotations, with their values unchanged,
\* and uid, resourceVersion, creationTimestamp, ownerReferences are gone.
C10_Sanitized ==
    (pc = "prepared" /\ err = "") =>
        /\ Len(prepared) = Len(prepInput)
        /\ \A i \in 1..Len(prepared) :
            /\ "status" \notin DOMAIN prepared[i]
            /\ DOMAIN prepared[i].metadata =
                 DOMAIN prepInput[i].metadata \cap
                    {"name", "namespace", "labels", "annotations"}
            /\ \A k \in DOMAIN prepared[i].metadata :
                 prepared[i].metadata[k] = prepInput[i].metadata[k]
            /\ DOMAIN prepared[i].metadata \cap
                 {"uid", "resourceVersion", "creationTimestamp",
                  "ownerReferences"} = {}

C10_Witness ==
    /\ pc = "prepared"
    /\ err = ""
    /\ Len(prepared) = 2
    /\ "status" \in DOMAIN prepInput[1]
    /\ "ownerReferences" \in DOMAIN prepInput[1].metadata
    /\ "annotations" \in DOMAIN prepInput[2].metadata
    /\ "namespace" \notin DOMAIN prepared[1].metadata
    /\ "annotations" \in DOMAIN prepared[2].metadata

PrepareSucceeded == pc = "prepared" /\ err = ""

\* C11: after a successful prepareResources a Service whose spec.clusterIP
\* was "None" still has spec.clusterIP = "None", and every other Service
\* has no clusterIP in its spec.
C11_HeadlessService ==
    PrepareSucceeded =>
        \A i \in 1..Len(prepared) :
            GetKind(prepInput[i]) = "Service" =>
                IF /\ "clusterIP" \in DOMAIN prepInput[i].spec
                   /\ prepInput[i].spec.clusterIP = "None"
                THEN /\ "clusterIP" \in DOMAIN prepared[i].spec
                     /\ prepared[i].spec.clusterIP = "None"
                ELSE "clusterIP" \notin DOMAIN prepared[i].spec

\* a headless service and a service with an assigned cluster IP in one pass
C11_Witness ==
    /\ PrepareSucceeded
    /\ Len(prepared) = 2
    /\ GetKind(prepInput[1]) = "Service"
    /\ "clusterIP" \in DOMAIN prepInput[1].spec
    /\ prepInput[1].spec.clusterIP = "None"
    /\ "clusterIP" \in DOMAIN prepared[1].spec
    /\ prepared[1].spec.clusterIP = "None"
    /\ GetKind(prepInput[2]) = "Service"
    /\ "clusterIP" \in DOMAIN prepInput[2].spec
    /\ prepInput[2].spec.clusterIP = "10.0.0.5"
    /\ "clusterIP" \notin DOMAIN prepared[2].spec

\* C12: after a successful prepareResources every PersistentVolume has
\* neither claimRef nor storageClassName in its spec and every other field
\* of its spec is unchanged; the spec of an object of a kind other than
\* PersistentVolume and Service is as it was handed in.
C12_VolumeSanitized ==
    PrepareSucceeded =>
        \A i \in 1..Len(prepared) :
            /\ GetKind(prepInput[i]) = "PersistentVolume" =>
                /\ DOMAIN prepared[i].spec =
                     DOMAIN prepInput[i].spec \ {"claimRef", "storageClassName"}
                /\ \A k \in DOMAIN prepared[i].spec :
                     prepared[i].spec[k] = prepInput[i].spec[k]
            /\ GetKind(prepInput[i]) \notin {"PersistentVolume", "Service"} =>
                /\ "spec" \in DOMAIN prepared[i] <=> "spec" \in DOMAIN prepInput[i]
                /\ "spec" \in DOMAIN prepInput[i] =>
                     prepared[i].spec = prepInput[i].spec

\* a bound volume loses claimRef and storageClassName and keeps its
\* capacity, a claim keeps its storageClassName
C12_Witness ==
    /\ PrepareSucceeded
    /\ Len(prepared) = 2
    /\ GetKind(prepInput[1]) = "PersistentVolume"
    /\ DOMAIN prepInput[1].spec = {"claimRef", "storageClassName", "capacity"}
    /\ DOMAIN prepared[1].spec = {"capacity"}
    /\ GetKind(prepInput[2]) = "PersistentVolumeClaim"
    /\ "spec" \in DOMAIN prepared[2]
    /\ prepared[2].spec = [storageClassName |-> "px"]

\* C13: every collected object was listed from a group/version whose group
\* is not "extensions" through a descriptor whose kind is one of the eleven
\* collected kinds, and no list call is ever issued for another discovered
\* kind or for a kind of the "extensions" group.
C13_KindAndGroup ==
    /\ Len(origins) = Len(allObjects)
    /\ result \in {<<>>, allObjects}
    /\ \A i \in 1..Len(origins) :
        /\ origins[i].Group # "extensions"
        /\ origins[i].Kind \in
             {"PersistentVolumeClaim", "PersistentVolume", "Deployment",
              "StatefulSet", "DaemonSet", "ConfigMap", "Secret", "Service",
              "ServiceAccount", "ClusterRole", "ClusterRoleBinding"}
        /\ GetKind(allObjects[i]) = origins[i].Kind
    /\ \A c \in listCalls :
        /\ c.Group # "extensions"
        /\ c.Kind \in
             {"PersistentVolumeClaim", "PersistentVolume", "Deployment",
              "StatefulSet", "DaemonSet", "ConfigMap", "Secret", "Service",
              "ServiceAccount", "ClusterRole", "ClusterRoleBinding"}

\* the extensions group and a kind outside the list (ReplicaSet) were
\* discovered, and the call returned objects
C13_Witness ==
    /\ Succeeded
    /\ discovery = <<ExtensionsGroup, AppsGroup>>
    /\ labelSelectors = {}
    /\ "d1" \in Uids(result)
    /\ "d4" \in Uids(result)
    /\ "d5" \notin Uids(result)
    /\ Copies(result, "d1") = 1

\* C14: after UpadteFromSecret on an S3 BackupLocation with a non-empty
\* SecretConfig whose secret holds "region", S3Config.Region is the secret's
\* region without its trailing newline, and S3Config.SecretAccessKey is the
\* secret's "secretAccessKey" when that key is present and its prior value
\* otherwise: the region is never stored in SecretAccessKey.
C14_RegionResolved ==
    (/\ pc = "updated"
     /\ err = ""
     /\ blInput.Type = "s3"
     /\ blInput.SecretConfig # ""
     /\ secret.found
     /\ "region" \in DOMAIN secret.Data) =>
        /\ bl.S3Config # <<>>
        /\ bl.S3Config[1].Region = TrimSuffix(secret.Data["region"])
        /\ bl.S3Config[1].SecretAccessKey =
             IF "secretAccessKey" \in DOMAIN secret.Data
             THEN TrimSuffix(secret.Data["secretAccessKey"])
             ELSE IF blInput.S3Config = <<>> THEN <<>>
                  ELSE blInput.S3Config[1].SecretAccessKey

====
